---- MODULE Spec2Model ----
(***************************************************************************)
(* Ledger recalculation engine of the AdjustedCostBase calculator:         *)
(* the ACB algebra (ACBCalculatorService), the superficial-loss detector   *)
(* (SuperficialLossService) and the ledger orchestrator                    *)
(* (TransactionService) over a store of transaction rows and positions.    *)
(*                                                                         *)
(* Units.  Stored CAD amounts are integers of cents, stored share counts   *)
(* integers of millionths of a share, prices integers of cents per share,  *)
(* FX rates integers of hundredths.  Decimal.js values inside the algebra  *)
(* are exact rationals [n, d]; within the input sets below every Decimal   *)
(* intermediate has fewer than 20 significant digits or is rounded far     *)
(* from a half-way point, so the exact rational rounds as the Decimal.     *)
(* An optional value (undefined in the source) is << >>, a present one     *)
(* <<v>>.                                                                  *)
(***************************************************************************)
EXTENDS Integers, Sequences, FiniteSets, TLC

\* ------------------------------------------------------------------------
\* Decimal arithmetic (utils/decimal.ts)
\* ------------------------------------------------------------------------
CURRENCY_SCALE == 100
SHARE_SCALE == 1000000
WINDOW_DAYS == 30

Abs(x) == IF x < 0 THEN -x ELSE x

RECURSIVE GCD(_, _)
GCD(a, b) == IF b = 0 THEN a ELSE GCD(b, a % b)

\* A Decimal value as a reduced rational with positive denominator.
Rat(n, d) ==
    LET g == GCD(Abs(n), Abs(d))
        s == IF d < 0 THEN -1 ELSE 1
    IN  [n |-> s * (n \div g), d |-> s * (d \div g)]

Zero == [n |-> 0, d |-> 1]

\* toDecimal of a stored amount, share count, FX rate.
toDecimalCurrency(c) == Rat(c, CURRENCY_SCALE)
toDecimalShares(s) == Rat(s, SHARE_SCALE)
toDecimalRate(r) == Rat(r, 100)

plus(a, b) == Rat(a.n * b.d + b.n * a.d, a.d * b.d)
minus(a, b) == Rat(a.n * b.d - b.n * a.d, a.d * b.d)
times(a, b) ==
    LET x == Rat(a.n, b.d)
        y == Rat(b.n, a.d)
    IN  Rat(x.n * y.n, x.d * y.d)
isNegative(a) == a.n < 0
isZero(a) == a.n = 0
greaterThan(a, b) == a.n * b.d > b.n * a.d

\* safeDivide: the quotient, or 0 when the divisor is 0.
safeDivide(num, den) ==
    IF isZero(den) THEN Zero ELSE times(num, Rat(den.d, den.n))

\* Decimal.ROUND_HALF_UP to `scale` units: nearest, ties away from zero.
RoundHalfUp(a, scale) ==
    LET m == times(a, Rat(scale, 1))
        q == (2 * Abs(m.n) + m.d) \div (2 * m.d)
    IN  IF m.n < 0 THEN -q ELSE q

roundToCurrency(a) == RoundHalfUp(a, CURRENCY_SCALE)
roundToShares(a) == RoundHalfUp(a, SHARE_SCALE)

\* `x ?? dflt` on an optional value.
OrElse(opt, dflt) == IF opt = << >> THEN dflt ELSE opt[1]

\* ------------------------------------------------------------------------
\* ACB algebra (acb-calculator.service.ts).  A result is
\* [ok, newShares, newAcb, capitalGain]; ok = FALSE is a thrown Error.
\* ------------------------------------------------------------------------
Thrown == [ok |-> FALSE, newShares |-> 0, newAcb |-> 0, capitalGain |-> << >>]
Result(shares, acb, gain) ==
    [ok |-> TRUE, newShares |-> shares, newAcb |-> acb, capitalGain |-> gain]

\* A buy whose fees are converted at the FX rate with the price.
calculateBuyFeesConverted(input) ==
    LET oldAcb == toDecimalCurrency(input.currentAcb)
        oldShares == toDecimalShares(input.currentShares)
        qty == toDecimalShares(input.quantity)
        price == toDecimalCurrency(input.pricePerShare)
        fxRate == toDecimalRate(input.fxRate)
        fees == toDecimalCurrency(input.fees)
        totalCost == times(plus(times(price, qty), fees), fxRate)
    IN  Result(roundToShares(plus(oldShares, qty)),
               roundToCurrency(plus(oldAcb, totalCost)), << >>)

calculateBuy(input) ==
    LET oldAcb == toDecimalCurrency(input.currentAcb)
        oldShares == toDecimalShares(input.currentShares)
        qty == toDecimalShares(input.quantity)
        price == toDecimalCurrency(input.pricePerShare)
        fxRate == toDecimalRate(input.fxRate)
        fees == toDecimalCurrency(input.fees)
        costCad == times(times(price, qty), fxRate)
        totalCost == plus(costCad, fees)
    IN  Result(roundToShares(plus(oldShares, qty)),
               roundToCurrency(plus(oldAcb, totalCost)), << >>)

\* A sell that does not check the shares owned.
calculateSellUnchecked(input) ==
    LET oldAcb == toDecimalCurrency(input.currentAcb)
        oldShares == toDecimalShares(input.currentShares)
        qty == toDecimalShares(input.quantity)
        acbUsed == times(safeDivide(oldAcb, oldShares), qty)
        netProceeds ==
            minus(times(times(toDecimalCurrency(input.pricePerShare), qty),
                        toDecimalRate(input.fxRate)),
                  toDecimalCurrency(input.fees))
    IN  Result(roundToShares(minus(oldShares, qty)),
               roundToCurrency(minus(oldAcb, acbUsed)),
               <<roundToCurrency(minus(netProceeds, acbUsed))>>)

\* A sell whose fees are converted at the FX rate with the proceeds.
calculateSellFeesConverted(input) ==
    LET oldAcb == toDecimalCurrency(input.currentAcb)
        oldShares == toDecimalShares(input.currentShares)
        qty == toDecimalShares(input.quantity)
        price == toDecimalCurrency(input.pricePerShare)
        fxRate == toDecimalRate(input.fxRate)
        fees == toDecimalCurrency(input.fees)
        acbUsed == times(safeDivide(oldAcb, oldShares), qty)
        netProceeds == times(minus(times(price, qty), fees), fxRate)
    IN  IF greaterThan(qty, oldShares) THEN Thrown
        ELSE Result(roundToShares(minus(oldShares, qty)),
                    roundToCurrency(minus(oldAcb, acbUsed)),
                    <<roundToCurrency(minus(netProceeds, acbUsed))>>)

calculateSell(input) ==
    LET oldAcb == toDecimalCurrency(input.currentAcb)
        oldShares == toDecimalShares(input.currentShares)
        qty == toDecimalShares(input.quantity)
        price == toDecimalCurrency(input.pricePerShare)
        fxRate == toDecimalRate(input.fxRate)
        fees == toDecimalCurrency(input.fees)
        acbPerShare == safeDivide(oldAcb, oldShares)
        acbUsed == times(acbPerShare, qty)
        netProceeds == minus(times(times(price, qty), fxRate), fees)
        capitalGain == minus(netProceeds, acbUsed)
    IN  IF greaterThan(qty, oldShares) THEN Thrown
        ELSE Result(roundToShares(minus(oldShares, qty)),
                    roundToCurrency(minus(oldAcb, acbUsed)),
                    <<roundToCurrency(capitalGain)>>)

calculateDividend(input) ==
    Result(input.currentShares, input.currentAcb, << >>)

\* A DRIP whose dividend is paid on the shares acquired, not on those held.
calculateDripOnAcquired(input) ==
    LET oldAcb == toDecimalCurrency(input.currentAcb)
        oldShares == toDecimalShares(input.currentShares)
        newSharesAcquired == toDecimalShares(input.quantity)
        dividendPerShare == toDecimalCurrency(input.pricePerShare)
        fxRate == toDecimalRate(input.fxRate)
        fees == toDecimalCurrency(input.fees)
        dividendAmount == times(times(dividendPerShare, newSharesAcquired), fxRate)
        reinvestedAmount == plus(dividendAmount, fees)
    IN  Result(roundToShares(plus(oldShares, newSharesAcquired)),
               roundToCurrency(plus(oldAcb, reinvestedAmount)), << >>)

calculateDrip(input) ==
    LET oldAcb == toDecimalCurrency(input.currentAcb)
        oldShares == toDecimalShares(input.currentShares)
        newSharesAcquired == toDecimalShares(input.quantity)
        dividendPerShare == toDecimalCurrency(input.pricePerShare)
        fxRate == toDecimalRate(input.fxRate)
        fees == toDecimalCurrency(input.fees)
        dividendAmount == times(times(dividendPerShare, oldShares), fxRate)
        reinvestedAmount == plus(dividendAmount, fees)
    IN  Result(roundToShares(plus(oldShares, newSharesAcquired)),
               roundToCurrency(plus(oldAcb, reinvestedAmount)), << >>)

\* A return of capital that lets the ACB go below zero.
calculateRoCUnclamped(input) ==
    LET oldAcb == toDecimalCurrency(input.currentAcb)
        shares == toDecimalShares(input.currentShares)
        rocPerShare ==
            toDecimalCurrency(OrElse(input.rocPerShare, input.pricePerShare))
        fxRate == toDecimalRate(input.fxRate)
        totalRoc == times(times(rocPerShare, shares), fxRate)
    IN  Result(input.currentShares, roundToCurrency(minus(oldAcb, totalRoc)), << >>)

calculateRoC(input) ==
    LET oldAcb == toDecimalCurrency(input.currentAcb)
        shares == toDecimalShares(input.currentShares)
        rocPerShare ==
            toDecimalCurrency(OrElse(input.rocPerShare, input.pricePerShare))
        fxRate == toDecimalRate(input.fxRate)
        totalRoc == times(times(rocPerShare, shares), fxRate)
        newAcb == minus(oldAcb, totalRoc)
    IN  IF isNegative(newAcb)
        THEN Result(input.currentShares, 0,
                    <<roundToCurrency(Rat(Abs(newAcb.n), newAcb.d))>>)
        ELSE Result(input.currentShares, roundToCurrency(newAcb), << >>)

\* A split that keeps the ACB per share and so scales the total ACB.
calculateSplitPerShare(input) ==
    LET oldShares == toDecimalShares(input.currentShares)
        ratio == OrElse(input.ratio, Rat(1, 1))
    IN  Result(roundToShares(times(oldShares, ratio)),
               roundToCurrency(times(toDecimalCurrency(input.currentAcb), ratio)),
               << >>)

calculateSplit(input) ==
    LET oldShares == toDecimalShares(input.currentShares)
        ratio == OrElse(input.ratio, Rat(1, 1))
    IN  Result(roundToShares(times(oldShares, ratio)), input.currentAcb, << >>)

calculateConsolidation(input) == calculateSplit(input)

\* A merger that carries the whole ACB forward whatever cash is paid.
calculateMergerNoBoot(input) ==
    LET oldShares == toDecimalShares(input.currentShares)
        oldAcb == toDecimalCurrency(input.currentAcb)
        ratio == OrElse(input.ratio, Rat(1, 1))
    IN  Result(roundToShares(times(oldShares, ratio)), roundToCurrency(oldAcb), << >>)

calculateMerger(input) ==
    LET oldShares == toDecimalShares(input.currentShares)
        oldAcb == toDecimalCurrency(input.currentAcb)
        ratio == OrElse(input.ratio, Rat(1, 1))
        cashPerShare == toDecimalCurrency(OrElse(input.cashPerShare, 0))
        fxRate == toDecimalRate(input.fxRate)
        newShares == times(oldShares, ratio)
        totalCash == times(times(cashPerShare, oldShares), fxRate)
        totalValue ==
            plus(totalCash,
                 times(times(newShares, toDecimalCurrency(input.pricePerShare)),
                       fxRate))
        cashProportion == safeDivide(totalCash, totalValue)
        acbForCash == times(oldAcb, cashProportion)
    IN  IF greaterThan(cashPerShare, Zero)
        THEN Result(roundToShares(newShares),
                    roundToCurrency(minus(oldAcb, acbForCash)),
                    <<roundToCurrency(minus(totalCash, acbForCash))>>)
        ELSE Result(roundToShares(newShares), roundToCurrency(oldAcb), << >>)

calculateSpinoff(input) ==
    LET oldAcb == toDecimalCurrency(input.currentAcb)
        allocationPercent == Rat(OrElse(input.newSecurityAcbPercent, 0), 100)
        acbToNewSecurity == times(oldAcb, allocationPercent)
    IN  Result(input.currentShares,
               roundToCurrency(minus(oldAcb, acbToNewSecurity)), << >>)

calculateTransferIn(input) ==
    LET oldAcb == toDecimalCurrency(input.currentAcb)
        oldShares == toDecimalShares(input.currentShares)
        transferShares == toDecimalShares(input.quantity)
        transferAcb == times(toDecimalCurrency(input.pricePerShare), transferShares)
    IN  Result(roundToShares(plus(oldShares, transferShares)),
               roundToCurrency(plus(oldAcb, transferAcb)), << >>)

calculateTransferOut(input) ==
    LET oldAcb == toDecimalCurrency(input.currentAcb)
        oldShares == toDecimalShares(input.currentShares)
        transferShares == toDecimalShares(input.quantity)
        acbPerShare == safeDivide(oldAcb, oldShares)
        acbTransferred == times(acbPerShare, transferShares)
    IN  IF greaterThan(transferShares, oldShares) THEN Thrown
        ELSE Result(roundToShares(minus(oldShares, transferShares)),
                    roundToCurrency(minus(oldAcb, acbTransferred)), << >>)

calculate(input) ==
    CASE input.transactionType = "buy" -> calculateBuy(input)
      [] input.transactionType = "sell" -> calculateSell(input)
      [] input.transactionType = "dividend" -> calculateDividend(input)
      [] input.transactionType = "drip" -> calculateDrip(input)
      [] input.transactionType = "roc" -> calculateRoC(input)
      [] input.transactionType = "split" -> calculateSplit(input)
      [] input.transactionType = "consolidation" -> calculateConsolidation(input)
      [] input.transactionType = "merger" -> calculateMerger(input)
      [] input.transactionType = "spinoff" -> calculateSpinoff(input)
      [] input.transactionType = "transfer_in" -> calculateTransferIn(input)
      [] input.transactionType = "transfer_out" -> calculateTransferOut(input)
      [] OTHER -> Thrown

\* ------------------------------------------------------------------------
\* Reference data.  Securities and accounts are rows the orchestrator only
\* reads (Security.ts, Account.ts); AccountType is the account rows as created.
\* ------------------------------------------------------------------------
Securities == {"TEST", "FOREIGN"}
Accounts == {"NONREG", "TFSA"}
Currency == [s \in Securities |-> IF s = "FOREIGN" THEN "USD" ELSE "CAD"]
AccountType == [a \in Accounts |-> IF a = "NONREG" THEN "non-registered" ELSE a]

\* ------------------------------------------------------------------------
\* The store: transaction rows and position rows (Transaction, Position).
\* ------------------------------------------------------------------------
VARIABLES transactions, positions, clock, last, inflight, accountTypes, calc
vars == <<transactions, positions, clock, last, inflight, accountTypes, calc>>

\* Account.isRegistered, on the account row as it is stored now.
isRegistered(accountId) == accountTypes[accountId] # "non-registered"

\* ORDER BY date ASC, createdAt ASC
Precedes(u, t) ==
    u.date < t.date \/ (u.date = t.date /\ u.createdAt < t.createdAt)

\* findOne(... order: { date: 'DESC', createdAt: 'DESC' }) over a non-empty set
Latest(S) == CHOOSE t \in S : \A u \in S : u = t \/ Precedes(u, t)

\* find(... order: { date: 'ASC', createdAt: 'ASC' })
RECURSIVE SortAsc(_)
SortAsc(S) ==
    IF S = {} THEN << >>
    ELSE LET t == Latest(S) IN Append(SortAsc(S \ {t}), t)

\* A series query that forgets the account.
SeriesOfSecurity(T, securityId, accountId) ==
    {t \in T : t.securityId = securityId}

Series(T, securityId, accountId) ==
    {t \in T : t.securityId = securityId /\ t.accountId = accountId}

State(shares, acb) == [shares |-> shares, acb |-> acb]

getPositionStateAtDate(T, securityId, accountId, date) ==
    LET upTo == {t \in Series(T, securityId, accountId) : t.date <= date}
        dayBefore == {t \in Series(T, securityId, accountId) : t.date <= date - 1}
    IN  IF upTo = {} THEN State(0, 0)
        ELSE LET priorTransaction == Latest(upTo) IN
             IF priorTransaction.date < date
             THEN State(priorTransaction.sharesAfter, priorTransaction.acbAfter)
             ELSE IF dayBefore # {}
                  THEN State(Latest(dayBefore).sharesAfter, Latest(dayBefore).acbAfter)
                  ELSE State(0, 0)

\* getOrCreatePosition: the position map after the call.
getOrCreatePosition(P, securityId, accountId) ==
    IF P[<<securityId, accountId>>] = << >>
    THEN [P EXCEPT ![<<securityId, accountId>>] = <<State(0, 0)>>]
    ELSE P

savePosition(P, securityId, accountId, shares, acb) ==
    [P EXCEPT ![<<securityId, accountId>>] = <<State(shares, acb)>>]

\* ------------------------------------------------------------------------
\* Superficial-loss detector (superficial-loss.service.ts)
\* ------------------------------------------------------------------------
checkIfSharesStillOwned(T, securityId, afterDate) ==
    LET upTo == {t \in T : t.securityId = securityId /\ t.date <= afterDate}
    IN  IF upTo = {} THEN FALSE ELSE Latest(upTo).sharesAfter > 0

\* The acquisitions checkForSuperficialLoss relates to the sell: the buys and
\* drips of the security in the window, after its filter.
filteredAcquisitions(T, sellTransaction) ==
    LET sellDate == sellTransaction.date
        windowStart == sellDate - WINDOW_DAYS
        windowEnd == sellDate + WINDOW_DAYS
        allRelatedAcquisitions ==
            {t \in T : /\ t.securityId = sellTransaction.securityId
                       /\ t.type \in {"buy", "drip"}
                       /\ t.date >= windowStart /\ t.date <= windowEnd}
    IN  {t \in allRelatedAcquisitions :
            t.id # sellTransaction.id /\ t.date # sellDate}

\* checkForSuperficialLoss(...).isSuperficial
checkForSuperficialLoss(T, sellTransaction, lossAmount) ==
    IF lossAmount >= 0 THEN FALSE
    ELSE IF isRegistered(sellTransaction.accountId) THEN FALSE
    ELSE IF filteredAcquisitions(T, sellTransaction) = {} THEN FALSE
    ELSE checkIfSharesStillOwned(T, sellTransaction.securityId,
                                 sellTransaction.date + WINDOW_DAYS)

\* checkForSuperficialLoss(...).lossAmount
reportedLossAmount(T, sellTransaction, lossAmount) ==
    IF lossAmount >= 0 THEN 0 ELSE Abs(lossAmount)

\* ------------------------------------------------------------------------
\* Ledger orchestrator (transaction.service.ts).  An operation returns
\* [transactions, positions, ok]: the store it leaves and whether it
\* returned (ok) or threw; the store of a throwing call holds every write
\* made before the throw.
\* ------------------------------------------------------------------------
Outcome(T, P, ok) == [transactions |-> T, positions |-> P, ok |-> ok]

\* The ACBCalculationInput recalculateTransactions builds from a stored row.
RecalcInput(txn, currentShares, currentAcb) ==
    [transactionType |-> txn.type,
     quantity |-> txn.quantity,
     pricePerShare |-> txn.price,
     fees |-> txn.fees,
     fxRate |-> txn.fxRate,
     currentShares |-> currentShares,
     currentAcb |-> currentAcb,
     ratio |-> IF txn.ratio # << >> /\ ~isZero(txn.ratio[1]) THEN txn.ratio ELSE << >>,
     rocPerShare |-> << >>,
     newSecurityAcbPercent |-> << >>,
     cashPerShare |-> << >>]

\* The for-loop of recalculateTransactions from list[i] on.
RECURSIVE RecalcLoop(_, _, _, _, _)

\* One iteration of the loop: `result` is what calculate returned for list[i].
RecalcStep(T, list, i, currentShares, currentAcb, result) ==
    LET txn == list[i]
        isLoss == /\ txn.type = "sell"
                  /\ result.capitalGain # << >>
                  /\ result.capitalGain[1] < 0
        recalculated ==
            [txn EXCEPT !.acbBefore = currentAcb,
                        !.acbAfter = result.newAcb,
                        !.sharesBefore = currentShares,
                        !.sharesAfter = result.newShares,
                        !.capitalGain = result.capitalGain]
        saved ==
            IF isLoss
            THEN [recalculated EXCEPT !.flags =
                    IF checkForSuperficialLoss(T, recalculated, result.capitalGain[1])
                    THEN {"superficial_loss"}
                    ELSE txn.flags \ {"superficial_loss"}]
            ELSE recalculated
    IN  IF ~result.ok
        THEN [transactions |-> T, ok |-> FALSE,
              shares |-> currentShares, acb |-> currentAcb]
        ELSE RecalcLoop((T \ {txn}) \cup {saved}, list, i + 1,
                        result.newShares, result.newAcb)

RecalcLoop(T, list, i, currentShares, currentAcb) ==
    IF i > Len(list)
    THEN [transactions |-> T, ok |-> TRUE, shares |-> currentShares, acb |-> currentAcb]
    ELSE RecalcStep(T, list, i, currentShares, currentAcb,
                    calculate(RecalcInput(list[i], currentShares, currentAcb)))

\* The end of recalculateTransactions: `loop` is what the for-loop left.  The
\* final position is saved only when the loop did not throw.
RecalcFinish(P, securityId, accountId, loop) ==
    IF ~loop.ok THEN Outcome(loop.transactions, P, FALSE)
    ELSE Outcome(loop.transactions,
                 savePosition(getOrCreatePosition(P, securityId, accountId),
                              securityId, accountId, loop.shares, loop.acb),
                 TRUE)

\* A replay that starts from an empty position whatever precedes fromDate.
recalculateTransactionsFromZero(T, P, securityId, accountId, fromDate) ==
    LET list == SortAsc({t \in Series(T, securityId, accountId) : t.date >= fromDate})
    IN  RecalcFinish(P, securityId, accountId, RecalcLoop(T, list, 1, 0, 0))

\* A replay that reprocesses the whole series whatever fromDate is.
recalculateTransactionsWhole(T, P, securityId, accountId, fromDate) ==
    RecalcFinish(P, securityId, accountId,
                 RecalcLoop(T, SortAsc(Series(T, securityId, accountId)), 1, 0, 0))

recalculateTransactions(T, P, securityId, accountId, fromDate) ==
    LET before == {t \in Series(T, securityId, accountId) : t.date < fromDate}
        lastPrior == IF before = {} THEN << >> ELSE <<Latest(before)>>
        currentShares == IF lastPrior = << >> THEN 0 ELSE lastPrior[1].sharesAfter
        currentAcb == IF lastPrior = << >> THEN 0 ELSE lastPrior[1].acbAfter
        list == SortAsc({t \in Series(T, securityId, accountId) : t.date >= fromDate})
    IN  RecalcFinish(P, securityId, accountId,
                     RecalcLoop(T, list, 1, currentShares, currentAcb))

\* createTransaction once the new row is saved in T1: replay when a later
\* transaction exists, else save the position.
createSaved(T1, P1, input, result) ==
    IF {t \in Series(T1, input.securityId, input.accountId) : t.date > input.date} # {}
    THEN recalculateTransactions(T1, P1, input.securityId, input.accountId,
                                 input.date)
    ELSE Outcome(T1,
                 savePosition(P1, input.securityId, input.accountId,
                              result.newShares, result.newAcb),
                 TRUE)

\* The Transaction row createTransaction builds from `result`, before the
\* superficial-loss check.
builtTransaction(now, input, fxRate, positionState, result) ==
    [id |-> now,
     createdAt |-> now,
     date |-> input.date,
     settlementDate |-> OrElse(input.settlementDate, input.date),
     type |-> input.type,
     securityId |-> input.securityId,
     accountId |-> input.accountId,
     quantity |-> input.quantity,
     price |-> input.price,
     fees |-> OrElse(input.fees, 0),
     fxRate |-> fxRate,
     acbBefore |-> positionState.acb,
     acbAfter |-> result.newAcb,
     sharesBefore |-> positionState.shares,
     sharesAfter |-> result.newShares,
     capitalGain |-> result.capitalGain,
     ratio |-> input.ratio,
     newSecurityId |-> input.newSecurityId,
     notes |-> input.notes,
     flags |-> {}]

\* A superficial-loss check that applies the denial: the flagged sell
\* reports no loss.
newTransactionDenied(T, now, input, fxRate, positionState, result) ==
    LET unflagged == builtTransaction(now, input, fxRate, positionState, result)
        isLoss == /\ input.type = "sell"
                  /\ result.capitalGain # << >>
                  /\ result.capitalGain[1] < 0
    IN  IF isLoss /\ checkForSuperficialLoss(T, unflagged, result.capitalGain[1])
        THEN [unflagged EXCEPT !.flags = {"superficial_loss"},
                               !.capitalGain = <<0>>]
        ELSE unflagged

\* The Transaction row createTransaction saves: built, then flagged.
newTransaction(T, now, input, fxRate, positionState, result) ==
    LET unflagged == builtTransaction(now, input, fxRate, positionState, result)
        isLoss == /\ input.type = "sell"
                  /\ result.capitalGain # << >>
                  /\ result.capitalGain[1] < 0
    IN  IF isLoss /\ checkForSuperficialLoss(T, unflagged, result.capitalGain[1])
        THEN [unflagged EXCEPT !.flags = {"superficial_loss"}]
        ELSE unflagged

\* createTransaction once calculate has answered `result` (a throw of
\* calculate leaves the position row getOrCreatePosition wrote).
createCalculated(T, P1, now, input, fxRate, positionState, result) ==
    IF ~result.ok THEN Outcome(T, P1, FALSE)
    ELSE createSaved(
             T \cup {newTransaction(T, now, input, fxRate, positionState, result)},
             P1, input, result)

\* The ACBCalculationInput createTransaction builds.
CreateCalcInput(input, fxRate, positionState) ==
    [transactionType |-> input.type,
     quantity |-> input.quantity,
     pricePerShare |-> input.price,
     fees |-> OrElse(input.fees, 0),
     fxRate |-> fxRate,
     currentShares |-> positionState.shares,
     currentAcb |-> positionState.acb,
     ratio |-> input.ratio,
     rocPerShare |-> input.rocPerShare,
     newSecurityAcbPercent |-> input.newSecurityAcbPercent,
     cashPerShare |-> input.cashPerShare]

\* createTransaction once the before-state and the FX rate are known.
createPrepared(T, P1, now, input, fxRate, positionState) ==
    createCalculated(T, P1, now, input, fxRate, positionState,
                     calculate(CreateCalcInput(input, fxRate, positionState)))

\* An FX lookup that answers with the rate of date 1 whatever date is asked.
getRateFirstDate(oracle, date) ==
    IF 1 \in DOMAIN oracle THEN <<oracle[1]>> ELSE << >>

\* fxRateService.getRate(date, currency, 'CAD'): `oracle` holds the rate of
\* each date the service can answer for; for any other date the call throws.
getRate(oracle, date) ==
    IF date \in DOMAIN oracle THEN <<oracle[date]>> ELSE << >>

\* createTransaction calls the FX service: no rate from the caller and a
\* security not in CAD.
NeedsOracle(input) ==
    input.fxRate = << >> /\ Currency[input.securityId] # "CAD"

\* createTransaction(input) at time `now`, with the FX service `oracle`.
createTransaction(T, P, now, input, oracle) ==
    LET settlementDate == OrElse(input.settlementDate, input.date)
        needsOracle == NeedsOracle(input)
        fxRate == IF input.fxRate # << >> THEN input.fxRate[1]
                  ELSE IF needsOracle
                       THEN OrElse(getRate(oracle, settlementDate), 0)
                       ELSE 100
    IN  IF input.securityId \notin Securities \/ input.accountId \notin Accounts
        THEN Outcome(T, P, FALSE)
        ELSE IF needsOracle /\ getRate(oracle, settlementDate) = << >>
        THEN Outcome(T, getOrCreatePosition(P, input.securityId, input.accountId),
                     FALSE)
        ELSE createPrepared(T,
                 getOrCreatePosition(P, input.securityId, input.accountId),
                 now, input, fxRate,
                 getPositionStateAtDate(T, input.securityId, input.accountId,
                                        input.date))

\* A deleteTransaction that returns quietly when the id is unknown.
deleteTransactionLenient(T, P, id) ==
    IF \A t \in T : t.id # id THEN Outcome(T, P, TRUE)
    ELSE LET transaction == CHOOSE t \in T : t.id = id
         IN  recalculateTransactions(T \ {transaction}, P, transaction.securityId,
                                     transaction.accountId, transaction.date)

deleteTransaction(T, P, id) ==
    IF \A t \in T : t.id # id THEN Outcome(T, P, FALSE)
    ELSE LET transaction == CHOOSE t \in T : t.id = id
         IN  recalculateTransactions(T \ {transaction}, P, transaction.securityId,
                                     transaction.accountId, transaction.date)

\* `input.f ?? existing.f` for the fields updateTransaction merges; the
\* fields it does not copy are undefined in the recreated input.
FullInput(existing, input) ==
    [date |-> OrElse(input.date, existing.date),
     settlementDate |-> <<OrElse(input.settlementDate, existing.settlementDate)>>,
     type |-> OrElse(input.type, existing.type),
     securityId |-> OrElse(input.securityId, existing.securityId),
     accountId |-> OrElse(input.accountId, existing.accountId),
     quantity |-> OrElse(input.quantity, existing.quantity),
     price |-> OrElse(input.price, existing.price),
     fees |-> <<OrElse(input.fees, existing.fees)>>,
     ratio |-> IF input.ratio # << >> THEN input.ratio ELSE existing.ratio,
     notes |-> IF input.notes # << >> THEN input.notes ELSE existing.notes,
     fxRate |-> <<OrElse(input.fxRate, existing.fxRate)>>,
     rocPerShare |-> << >>,
     newSecurityId |-> << >>,
     newSecurityAcbPercent |-> << >>,
     cashPerShare |-> << >>]

\* updateTransaction after its deleteTransaction left `deleted`.
updateDeleted(deleted, now, fullInput, oracle) ==
    IF ~deleted.ok THEN deleted
    ELSE createTransaction(deleted.transactions, deleted.positions, now,
                           fullInput, oracle)

updateTransaction(T, P, now, id, input, oracle) ==
    IF \A t \in T : t.id # id THEN Outcome(T, P, FALSE)
    ELSE updateDeleted(deleteTransaction(T, P, id), now,
                       FullInput(CHOOSE t \in T : t.id = id, input), oracle)

\* ------------------------------------------------------------------------
\* Requests.  Input sets of the model.
\* ------------------------------------------------------------------------
MaxCreates == 3

Dates == {1, 2, 40}
Quantities == {1000000, 2000000}
Prices == {1000, 2000}

Blank ==
    [date |-> << >>, settlementDate |-> << >>, type |-> << >>,
     securityId |-> << >>, accountId |-> << >>, quantity |-> << >>,
     price |-> << >>, fees |-> << >>, ratio |-> << >>, rocPerShare |-> << >>,
     newSecurityId |-> << >>, newSecurityAcbPercent |-> << >>,
     cashPerShare |-> << >>, notes |-> << >>, fxRate |-> << >>]

\* A CreateTransactionInput: the required fields set, the rest undefined.
Input(date, type, securityId, accountId, quantity, price) ==
    [Blank EXCEPT !.date = date, !.type = type, !.securityId = securityId,
                  !.accountId = accountId, !.quantity = quantity, !.price = price]

\* Spec: one series, trades and returns of capital on three trade dates.
TradeInputs ==
    {Input(d, ty, "TEST", "NONREG", q, p) :
        d \in Dates, ty \in {"buy", "sell"}, q \in Quantities, p \in Prices}

RocInputs ==
    {[Input(d, "roc", "TEST", "NONREG", 0, 0) EXCEPT !.rocPerShare = <<r>>] :
        d \in Dates, r \in {500, 1500}}

CreateInputs == TradeInputs \cup RocInputs

\* Partial<CreateTransactionInput> of one field.
Patches ==
    {[Blank EXCEPT !.date = <<d>>] : d \in Dates}
    \cup {[Blank EXCEPT !.quantity = <<q>>] : q \in Quantities}
    \cup {[Blank EXCEPT !.price = <<p>>] : p \in Prices}
    \cup {[Blank EXCEPT !.rocPerShare = <<r>>] : r \in {500, 1500}}

SeriesKeys == Securities \X Accounts

\* Requests being served: each createTransaction call in flight with the
\* values it holds in memory between two awaits.
Requests == {"r1", "r2"}
Idle ==
    [pc |-> "idle", input |-> << >>, positionState |-> << >>, fxRate |-> << >>,
     result |-> << >>]

\* A call of acbCalculator.calculate outside the orchestrator: its input and,
\* once it returned or threw, its result.
NoCalc == [input |-> << >>, result |-> << >>]

Init ==
    /\ calc = NoCalc
    /\ transactions = {}
    /\ positions = [k \in SeriesKeys |-> << >>]
    /\ clock = 1
    /\ last = [op |-> "init", ok |-> TRUE, id |-> 0, target |-> 0]
    /\ inflight = [r \in Requests |-> Idle]
    /\ accountTypes = AccountType

\* The clock ticks when the call inserted the row it was to create.
Tick(T) == IF \E t \in T : t.id = clock THEN clock + 1 ELSE clock

\* The store and the answer a call leaves behind.
Respond(op, out, id, target) ==
    /\ transactions' = out.transactions
    /\ positions' = out.positions
    /\ clock' = IF op = "delete" THEN clock ELSE Tick(out.transactions)
    /\ last' = [op |-> op, ok |-> out.ok, id |-> id, target |-> target]
    /\ UNCHANGED <<inflight, accountTypes, calc>>

Create(input) ==
    Respond("create",
            createTransaction(transactions, positions, clock, input, << >>),
            clock, 0)

Update(id, patch) ==
    Respond("update",
            updateTransaction(transactions, positions, clock, id, patch, << >>),
            clock, id)

Delete(id) ==
    Respond("delete", deleteTransaction(transactions, positions, id), 0, id)

Ids == {t.id : t \in transactions}

\* At most MaxCreates rows are ever inserted.
Next ==
    \/ \E input \in CreateInputs : clock <= MaxCreates /\ Create(input)
    \/ \E id \in Ids, patch \in Patches : clock <= MaxCreates /\ Update(id, patch)
    \/ \E id \in Ids : Delete(id)

Spec == Init /\ [][Next]_vars

\* SpecSeries: the same security held in two accounts, trades on two trade
\* dates, and updates that move a transaction to the other account.
MaxSeriesCreates == 4

SeriesInputs ==
    {Input(d, ty, "TEST", a, 1000000, 1000) :
        d \in {1, 2}, ty \in {"buy", "sell"}, a \in Accounts}

SeriesPatches ==
    {[Blank EXCEPT !.accountId = <<a>>] : a \in Accounts}
    \cup {[Blank EXCEPT !.date = <<d>>] : d \in {1, 2}}

NextSeries ==
    \/ \E input \in SeriesInputs : clock <= MaxSeriesCreates /\ Create(input)
    \/ \E id \in Ids, patch \in SeriesPatches :
          clock <= MaxSeriesCreates /\ Update(id, patch)
    \/ \E id \in Ids : Delete(id)

SpecSeries == Init /\ [][NextSeries]_vars

\* SpecCorporate: one series with trades, transfers, splits and spinoffs on three trade
\* dates.  newSecurityAcbPercent is a fraction, held in hundredths.
MaxCorporateCreates == 3

CorporateDates == {1, 2, 3}

SpinoffInputs ==
    {[Input(d, "spinoff", "TEST", "NONREG", 0, 0)
        EXCEPT !.newSecurityAcbPercent = <<pct>>] :
        d \in CorporateDates, pct \in {50, 150}}

SplitInputs ==
    {[Input(d, "split", "TEST", "NONREG", 0, 0) EXCEPT !.ratio = <<Rat(2, 1)>>] :
        d \in CorporateDates}

CorporateInputs ==
    {Input(d, ty, "TEST", "NONREG", 1000000, 1000) :
        d \in CorporateDates, ty \in {"buy", "sell", "transfer_in", "transfer_out"}}
    \cup SpinoffInputs \cup SplitInputs

NextCorporate ==
    \/ \E input \in CorporateInputs : clock <= MaxCorporateCreates /\ Create(input)
    \/ \E id \in Ids : Delete(id)

SpecCorporate == Init /\ [][NextCorporate]_vars

\* SpecRatio: buys and ratio-carrying corporate actions whose ratio is
\* negative, zero or positive.
MaxRatioCreates == 3

Ratios == {Rat(0 - 1, 1), Rat(0, 1), Rat(2, 1)}

RatioInputs ==
    {Input(d, "buy", "TEST", "NONREG", 1000000, 1000) : d \in {1, 2}}
    \cup {[Input(d, ty, "TEST", "NONREG", 0, 0) EXCEPT !.ratio = <<ratio>>] :
            d \in {1, 2}, ty \in {"split", "consolidation", "merger"},
            ratio \in Ratios}

NextRatio ==
    \/ \E input \in RatioInputs : clock <= MaxRatioCreates /\ Create(input)
    \/ \E id \in Ids : Delete(id)

SpecRatio == Init /\ [][NextRatio]_vars

\* SpecWindow: one security in a non-registered and a registered account,
\* bought at 10 and sold at 5, on trade dates 30 and 31 days apart.
MaxWindowCreates == 3

WindowDates == {1, 31, 32, 62}

WindowInputs ==
    {Input(d, "buy", "TEST", "NONREG", q, 1000) :
        d \in WindowDates, q \in {1000000, 2000000}}
    \cup {Input(d, "sell", "TEST", a, 2000000, 500) :
        d \in WindowDates, a \in Accounts}
    \cup {Input(d, "buy", "TEST", "TFSA", 2000000, 1000) : d \in WindowDates}
    \cup {Input(d, "transfer_in", "TEST", "NONREG", 2000000, 1000) : d \in WindowDates}

WindowPatches == {[Blank EXCEPT !.date = <<d>>] : d \in WindowDates}

NextWindow ==
    \/ \E input \in WindowInputs : clock <= MaxWindowCreates /\ Create(input)
    \/ \E id \in Ids, patch \in WindowPatches :
          clock <= MaxWindowCreates /\ Update(id, patch)
    \/ \E id \in Ids : Delete(id)

SpecWindow == Init /\ [][NextWindow]_vars

\* SpecConcurrent: two createTransaction calls on one series served
\* concurrently.  A step is the code between two awaits of the call, taken
\* as one step from the read of the before-state on; the service holds no
\* lock and opens no persistence transaction.
ConcurrentInputs ==
    {Input(d, ty, "TEST", "NONREG", 1000000, 1000) :
        d \in {1, 2}, ty \in {"buy", "sell"}}

\* The request arrives (security and account found).
Begin(r, input) ==
    /\ inflight[r].pc = "idle"
    /\ inflight' = [inflight EXCEPT ![r] = [Idle EXCEPT !.pc = "validated",
                                                        !.input = <<input>>]]
    /\ UNCHANGED <<transactions, positions, clock, last, accountTypes, calc>>

\* await this.getPositionStateAtDate(...)
ReadState(r) ==
    /\ inflight[r].pc = "validated"
    /\ inflight' = [inflight EXCEPT
            ![r].pc = "stateRead",
            ![r].positionState =
                <<getPositionStateAtDate(transactions, inflight[r].input[1].securityId,
                                         inflight[r].input[1].accountId,
                                         inflight[r].input[1].date)>>]
    /\ UNCHANGED <<transactions, positions, clock, last, accountTypes, calc>>

\* await this.getOrCreatePosition(...), then, when the FX service is not
\* needed, acbCalculator.calculate
GetPosition(r) ==
    /\ inflight[r].pc = "stateRead"
    /\ ~NeedsOracle(inflight[r].input[1])
    /\ positions' = getOrCreatePosition(positions, inflight[r].input[1].securityId,
                                        inflight[r].input[1].accountId)
    /\ inflight' = [inflight EXCEPT
            ![r].pc = "positionReady",
            ![r].fxRate = <<OrElse(inflight[r].input[1].fxRate, 100)>>,
            ![r].result =
                <<calculate(CreateCalcInput(inflight[r].input[1],
                                            OrElse(inflight[r].input[1].fxRate, 100),
                                            inflight[r].positionState[1]))>>]
    /\ UNCHANGED <<transactions, clock, last, accountTypes, calc>>

\* calculate threw: the call ends.
Throw(r) ==
    /\ inflight[r].pc = "positionReady"
    /\ ~inflight[r].result[1].ok
    /\ inflight' = [inflight EXCEPT ![r].pc = "failed"]
    /\ UNCHANGED <<transactions, positions, clock, last, accountTypes, calc>>

\* The detector's reads, then await this.transactionRepository.save(transaction)
SaveRow(r) ==
    /\ inflight[r].pc = "positionReady"
    /\ inflight[r].result[1].ok
    /\ transactions' = transactions \cup
           {newTransaction(transactions, clock, inflight[r].input[1],
                           inflight[r].fxRate[1],
                           inflight[r].positionState[1], inflight[r].result[1])}
    /\ clock' = clock + 1
    /\ inflight' = [inflight EXCEPT ![r].pc = "saved"]
    /\ UNCHANGED <<positions, last, accountTypes, calc>>

\* The store the end of the call leaves, and the call's end.
Finished(r, out) ==
    /\ transactions' = out.transactions
    /\ positions' = out.positions
    /\ inflight' = [inflight EXCEPT ![r].pc = IF out.ok THEN "done" ELSE "failed"]
    /\ UNCHANGED <<clock, last, accountTypes, calc>>

\* The later-transactions query, then the replay or the save of the position.
Finish(r) ==
    /\ inflight[r].pc = "saved"
    /\ Finished(r, createSaved(transactions, positions, inflight[r].input[1],
                               inflight[r].result[1]))

NextConcurrent ==
    \E r \in Requests :
        \/ \E input \in ConcurrentInputs : Begin(r, input)
        \/ ReadState(r)
        \/ GetPosition(r)
        \/ Throw(r)
        \/ SaveRow(r)
        \/ Finish(r)

SpecConcurrent == Init /\ [][NextConcurrent]_vars

\* SpecFxConcurrent: two createTransaction calls on a USD security without a
\* caller's rate, served concurrently: each awaits the FX service between
\* getOrCreatePosition and calculate.
FxConcurrentInputs ==
    {Input(d, ty, "FOREIGN", "NONREG", 1000000, 1000) :
        d \in {1, 2}, ty \in {"buy", "sell"}}

\* await this.getOrCreatePosition(...), then the call of fxRateService.getRate
GetPositionRow(r) ==
    /\ inflight[r].pc = "stateRead"
    /\ NeedsOracle(inflight[r].input[1])
    /\ positions' = getOrCreatePosition(positions, inflight[r].input[1].securityId,
                                        inflight[r].input[1].accountId)
    /\ inflight' = [inflight EXCEPT ![r].pc = "fetching"]
    /\ UNCHANGED <<transactions, clock, last, accountTypes, calc>>

\* fxRateService.getRate answers or throws; with a rate, acbCalculator.calculate
FetchRate(r, oracle) ==
    /\ inflight[r].pc = "fetching"
    /\ inflight' =
         IF getRate(oracle, OrElse(inflight[r].input[1].settlementDate,
                                   inflight[r].input[1].date)) = << >>
         THEN [inflight EXCEPT ![r].pc = "failed"]
         ELSE [inflight EXCEPT
                 ![r].pc = "positionReady",
                 ![r].fxRate =
                     getRate(oracle, OrElse(inflight[r].input[1].settlementDate,
                                            inflight[r].input[1].date)),
                 ![r].result =
                     <<calculate(CreateCalcInput(
                          inflight[r].input[1],
                          getRate(oracle,
                                  OrElse(inflight[r].input[1].settlementDate,
                                         inflight[r].input[1].date))[1],
                          inflight[r].positionState[1]))>>]
    /\ UNCHANGED <<transactions, positions, clock, last, accountTypes, calc>>

NextFxConcurrent ==
    \E r \in Requests :
        \/ \E input \in FxConcurrentInputs : Begin(r, input)
        \/ ReadState(r)
        \/ GetPositionRow(r)
        \/ \E oracle \in {<< >>, <<135, 140>>} : FetchRate(r, oracle)
        \/ Throw(r)
        \/ SaveRow(r)
        \/ Finish(r)

SpecFxConcurrent == Init /\ [][NextFxConcurrent]_vars

\* SpecAccounts: the ledger calls together with PUT /api/accounts/:id, which
\* stores the type it is given on the account row and touches no transaction.
MaxAccountCreates == 3

AccountKinds == {"non-registered", "TFSA"}

UpdateAccount(accountId, type) ==
    /\ accountTypes' = [accountTypes EXCEPT ![accountId] = type]
    /\ UNCHANGED <<transactions, positions, clock, last, inflight, calc>>

AccountInputs ==
    {Input(d, "buy", "TEST", a, 2000000, 1000) : d \in {1, 31}, a \in Accounts}
    \cup {Input(d, "sell", "TEST", a, 2000000, 500) : d \in {1, 31}, a \in Accounts}

NextAccounts ==
    \/ \E input \in AccountInputs : clock <= MaxAccountCreates /\ Create(input)
    \/ \E id \in Ids : Delete(id)
    \/ \E accountId \in Accounts, type \in AccountKinds :
          UpdateAccount(accountId, type)

SpecAccounts == Init /\ [][NextAccounts]_vars

\* SpecNotFound: calls that name a security, an account or a transaction
\* the store does not hold, among calls that succeed.
MaxNotFoundCreates == 3

UnknownId == 99

NotFoundInputs ==
    {Input(d, "buy", s, a, 1000000, 1000) :
        d \in {1, 2}, s \in {"TEST", "MISSING"}, a \in {"NONREG", "GONE"}}

NotFoundPatches == {[Blank EXCEPT !.date = <<d>>] : d \in {1, 2}}

NextNotFound ==
    \/ \E input \in NotFoundInputs : clock <= MaxNotFoundCreates /\ Create(input)
    \/ \E id \in Ids \cup {UnknownId}, patch \in NotFoundPatches :
          clock <= MaxNotFoundCreates /\ Update(id, patch)
    \/ \E id \in Ids \cup {UnknownId} : Delete(id)

SpecNotFound == Init /\ [][NextNotFound]_vars

\* SpecAlgebra: acbCalculator.calculate applied once to a buy, a sell or a
\* return of capital, over holdings of 0, 3, 10 and 100 shares, CAD and USD
\* prices, with and without fees.
Holdings ==
    {State(0, 0), State(3000000, 1000), State(10000000, 500000),
     State(100000000, 80000)}

\* Dividends, DRIPs, splits, consolidations and mergers on the same holdings.
IncomeInputs ==
    {[transactionType |-> ty, quantity |-> q, pricePerShare |-> p, fees |-> f,
      fxRate |-> r, currentShares |-> h.shares, currentAcb |-> h.acb,
      ratio |-> << >>, rocPerShare |-> << >>, newSecurityAcbPercent |-> << >>,
      cashPerShare |-> << >>] :
        ty \in {"dividend", "drip"}, q \in {1000000, 2500000}, p \in {50, 125},
        f \in {0, 1000}, r \in {100, 135}, h \in Holdings}

RatioInputsAlgebra ==
    {[transactionType |-> ty, quantity |-> 0, pricePerShare |-> p, fees |-> 0,
      fxRate |-> r, currentShares |-> h.shares, currentAcb |-> h.acb,
      ratio |-> ratio, rocPerShare |-> << >>, newSecurityAcbPercent |-> << >>,
      cashPerShare |-> cash] :
        ty \in {"split", "consolidation", "merger"},
        ratio \in {<< >>, <<Rat(2, 1)>>, <<Rat(1, 2)>>, <<Rat(3, 1)>>},
        p \in {0, 2000}, r \in {100, 135}, h \in Holdings,
        cash \in {<< >>, <<0>>, <<500>>}}

AlgebraInputs ==
    {[transactionType |-> ty, quantity |-> q, pricePerShare |-> p, fees |-> f,
      fxRate |-> r, currentShares |-> h.shares, currentAcb |-> h.acb,
      ratio |-> << >>, rocPerShare |-> << >>, newSecurityAcbPercent |-> << >>,
      cashPerShare |-> << >>] :
        ty \in {"buy", "sell"}, q \in {1000000, 3000000, 10000000},
        p \in {1000, 50000}, f \in {0, 1000}, r \in {100, 135}, h \in Holdings}
    \cup
    {[transactionType |-> "roc", quantity |-> 0, pricePerShare |-> 0, fees |-> 0,
      fxRate |-> r, currentShares |-> h.shares, currentAcb |-> h.acb,
      ratio |-> << >>, rocPerShare |-> <<roc>>, newSecurityAcbPercent |-> << >>,
      cashPerShare |-> << >>] :
        roc \in {500, 1000}, r \in {100, 135}, h \in Holdings}
    \cup IncomeInputs \cup RatioInputsAlgebra

InitAlgebra ==
    /\ calc \in {[input |-> <<input>>, result |-> << >>] : input \in AlgebraInputs}
    /\ transactions = {}
    /\ positions = [k \in SeriesKeys |-> << >>]
    /\ clock = 1
    /\ last = [op |-> "init", ok |-> TRUE, id |-> 0, target |-> 0]
    /\ inflight = [r \in Requests |-> Idle]
    /\ accountTypes = AccountType

Calculate ==
    /\ calc.input # << >>
    /\ calc.result = << >>
    /\ calc' = [calc EXCEPT !.result = <<calculate(calc.input[1])>>]
    /\ UNCHANGED <<transactions, positions, clock, last, inflight, accountTypes>>

NextAlgebra == Calculate

SpecAlgebra == InitAlgebra /\ [][NextAlgebra]_vars

\* SpecSpinoff: buys of one security and spinoffs of it that allocate a
\* quarter or a half of its ACB to another security.
MaxSpinoffCreates == 3

SpinoffToInputs ==
    {Input(d, "buy", "TEST", "NONREG", 1000000, 1000) : d \in {1, 2, 3}}
    \cup {[Input(d, "spinoff", "TEST", "NONREG", 0, 0)
             EXCEPT !.newSecurityAcbPercent = <<pct>>,
                    !.newSecurityId = <<"FOREIGN">>] :
             d \in {1, 2, 3}, pct \in {25, 50}}

NextSpinoff ==
    \/ \E input \in SpinoffToInputs : clock <= MaxSpinoffCreates /\ Create(input)
    \/ \E id \in Ids : Delete(id)

SpecSpinoff == Init /\ [][NextSpinoff]_vars

\* SpecExport: trades of one series and CSV exports of the ledger.  A CSV is
\* its header line and its data lines, each the sequence of its cells.
MaxExportCreates == 2

headers ==
    <<"Date", "Settlement Date", "Type", "Security", "Account", "Quantity",
      "Price", "Currency", "Fees", "FX Rate", "ACB Before", "ACB After",
      "Shares Before", "Shares After", "Capital Gain/Loss", "Flags", "Notes">>

\* (t.flags ?? []).join('; '): superficial_loss is the only flag ever set.
JoinFlags(flags) == IF flags = {} THEN "" ELSE CHOOSE f \in flags : TRUE

exportRow(t) ==
    <<t.date, t.settlementDate, t.type, t.securityId, t.accountId, t.quantity,
      t.price, Currency[t.securityId], t.fees, t.fxRate, t.acbBefore,
      t.acbAfter, t.sharesBefore, t.sharesAfter, OrElse(t.capitalGain, ""),
      JoinFlags(t.flags), OrElse(t.notes, "")>>

\* find(... order: { date: 'DESC', createdAt: 'DESC' }) with optional filters
getTransactions(T, securityId, accountId) ==
    LET found == {t \in T : /\ securityId # << >> => t.securityId = securityId[1]
                            /\ accountId # << >> => t.accountId = accountId[1]}
        asc == SortAsc(found)
    IN  [i \in 1..Len(asc) |-> asc[Len(asc) + 1 - i]]

exportTransactionsCSV(T, securityId, accountId) ==
    LET found == getTransactions(T, securityId, accountId)
    IN  <<headers>> \o [i \in 1..Len(found) |-> exportRow(found[i])]

Export(securityId, accountId) ==
    /\ last' = [op |-> "export", ok |-> TRUE, id |-> 0, target |-> 0,
                csv |-> exportTransactionsCSV(transactions, securityId, accountId)]
    /\ UNCHANGED <<transactions, positions, clock, inflight, accountTypes, calc>>

NextExport ==
    \/ \E input \in CreateInputs : clock <= MaxExportCreates /\ Create(input)
    \/ \E id \in Ids : Delete(id)
    \/ \E securityId \in {<< >>, <<"TEST">>}, accountId \in {<< >>, <<"TFSA">>} :
         Export(securityId, accountId)

SpecExport == Init /\ [][NextExport]_vars

\* SpecLiquidation: buys, sells and transfers out of one or two shares of one
\* series on two trade dates, so that a holding is often disposed of whole.
MaxLiquidationCreates == 3

LiquidationInputs ==
    {[Input(d, ty, "TEST", "NONREG", q, 1000) EXCEPT !.fees = <<f>>] :
        d \in {1, 2}, ty \in {"buy", "sell", "transfer_out"},
        q \in Quantities, f \in {0, 500}}

NextLiquidation ==
    \/ \E input \in LiquidationInputs :
         clock <= MaxLiquidationCreates /\ Create(input)
    \/ \E id \in Ids : Delete(id)

SpecLiquidation == Init /\ [][NextLiquidation]_vars

\* SpecFx: creates on a CAD and a USD security, with and without a caller's
\* fxRate and a settlement date of their own, against an FX service that
\* answers for every date, for date 1 alone, or for none.
MaxFxCreates == 2

Oracles == {<< >>, <<135>>, <<135, 140>>}

FxInputs ==
    {[Input(d, "buy", s, "NONREG", 1000000, 1000)
        EXCEPT !.settlementDate = sd, !.fxRate = fx] :
        d \in {1, 2}, s \in Securities, sd \in {<< >>, <<1>>, <<2>>},
        fx \in {<< >>, <<120>>}}

CreateFx(input, oracle) ==
    Respond("create",
            createTransaction(transactions, positions, clock, input, oracle),
            clock, 0)

NextFx ==
    \/ \E input \in FxInputs, oracle \in Oracles :
          clock <= MaxFxCreates /\ CreateFx(input, oracle)
    \/ \E id \in Ids : Delete(id)

SpecFx == Init /\ [][NextFx]_vars

\* ------------------------------------------------------------------------
\* Properties
\* ------------------------------------------------------------------------
Completed == last.op \in {"create", "update", "delete"} /\ last.ok

\* I1 on one ordered series.
Continuous(list) ==
    \A i \in 1..Len(list) :
        IF i = 1
        THEN list[i].sharesBefore = 0 /\ list[i].acbBefore = 0
        ELSE /\ list[i].sharesBefore = list[i - 1].sharesAfter
             /\ list[i].acbBefore = list[i - 1].acbAfter

ChainContinuity(T) ==
    \A k \in SeriesKeys : Continuous(SortAsc(Series(T, k[1], k[2])))

\* C1: after every completed create, update or delete, every series ordered by
\* (date, createdAt) is chained: each row's before-values are the previous
\* row's after-values and the first row starts from (0, 0).
C1_ChainContinuity == Completed => ChainContinuity(transactions)

\* The rows of the new row's series that share its trade date.
SameDayOthers(T, new) ==
    {t \in Series(T, new.securityId, new.accountId) : t.date = new.date /\ t.id # new.id}

\* C2: a transaction created on a trade date that already holds transactions
\* of its series is applied after them: its before-values are the after-values
\* of the latest other same-day transaction.
C2_SameDayOrdering ==
    (last.op = "create" /\ last.ok) =>
        \A new \in {t \in transactions : t.id = last.id} :
            SameDayOthers(transactions, new) # {} =>
                /\ new.sharesBefore = Latest(SameDayOthers(transactions, new)).sharesAfter
                /\ new.acbBefore = Latest(SameDayOthers(transactions, new)).acbAfter

\* C3: a createTransaction or deleteTransaction that fails leaves the stored
\* transactions and positions exactly as they were before the call.
C3_CreateDeleteAtomic ==
    [][(last'.op \in {"create", "delete"} /\ ~last'.ok) =>
          (transactions' = transactions /\ positions' = positions)]_vars

\* C4: an updateTransaction that fails leaves the original row, the series
\* and the positions exactly as they were before the call.
C4_UpdateAtomic ==
    [][(last'.op = "update" /\ ~last'.ok) =>
          (transactions' = transactions /\ positions' = positions)]_vars

\* The row with the given id.
Row(T, id) == CHOOSE t \in T : t.id = id

\* The algebra applied to a row's stored before-values and stored inputs.
\* rocPerShare, newSecurityAcbPercent and cashPerShare are no columns of the
\* Transaction entity, so the stored inputs do not hold them.
AlgebraOnStored(t) ==
    calculate([transactionType |-> t.type,
               quantity |-> t.quantity,
               pricePerShare |-> t.price,
               fees |-> t.fees,
               fxRate |-> t.fxRate,
               currentShares |-> t.sharesBefore,
               currentAcb |-> t.acbBefore,
               ratio |-> t.ratio,
               rocPerShare |-> << >>,
               newSecurityAcbPercent |-> << >>,
               cashPerShare |-> << >>])

Reproduces(t) ==
    /\ AlgebraOnStored(t).ok
    /\ AlgebraOnStored(t).newShares = t.sharesAfter
    /\ AlgebraOnStored(t).newAcb = t.acbAfter
    /\ AlgebraOnStored(t).capitalGain = t.capitalGain

\* The algebra accepts every row of the series when applied from (0, 0) in
\* (date, createdAt) order.
Feasible(T, securityId, accountId) ==
    RecalcLoop(T, SortAsc(Series(T, securityId, accountId)), 1, 0, 0).ok

\* The ledger with row `existing` replaced by its patched inputs, re-entered
\* at time `now`.
Patched(T, existing, patch, now) ==
    (T \ {existing}) \cup
        {[existing EXCEPT !.id = now, !.createdAt = now,
                          !.date = OrElse(patch.date, existing.date),
                          !.type = OrElse(patch.type, existing.type),
                          !.quantity = OrElse(patch.quantity, existing.quantity),
                          !.price = OrElse(patch.price, existing.price),
                          !.fxRate = OrElse(patch.fxRate, existing.fxRate)]}

\* Every row after `new` in its series is chained to its predecessor and is
\* the algebra's result on its stored inputs.
SuffixDerived(T, new) ==
    LET list == SortAsc(Series(T, new.securityId, new.accountId))
    IN  \A i \in 2..Len(list) :
            Precedes(new, list[i]) =>
                /\ list[i].sharesBefore = list[i - 1].sharesAfter
                /\ list[i].acbBefore = list[i - 1].acbAfter
                /\ Reproduces(list[i])

InputPatches == {p \in Patches : p.rocPerShare = << >>}

\* C5: an updateTransaction that changes date, type, quantity, price or
\* fxRate succeeds whenever the patched series is feasible, and afterwards
\* the rows after the patched one are derived from the patched inputs.
C5_UpdateRederivesSuffix ==
    \A id \in Ids, patch \in InputPatches :
        LET existing == Row(transactions, id)
            out == updateTransaction(transactions, positions, clock, id, patch, << >>)
        IN  Feasible(Patched(transactions, existing, patch, clock),
                     existing.securityId, existing.accountId)
            => /\ out.ok
               /\ \E new \in out.transactions :
                     new.id = clock /\ SuffixDerived(out.transactions, new)

RequiredColumns ==
    {"date", "settlementDate", "type", "securityId", "accountId",
     "quantity", "price", "fees", "fxRate"}
OptionalColumns == {"ratio", "newSecurityId", "notes"}
UnstoredParameters == {"rocPerShare", "newSecurityAcbPercent", "cashPerShare"}

\* C6: after a successful updateTransaction(id, patch) every input field
\* present in the patch has the patched value and every field absent from
\* the patch keeps the value the transaction had before.
C6_UpdateMergesFields ==
    \A id \in Ids, patch \in Patches :
        LET existing == Row(transactions, id)
            out == updateTransaction(transactions, positions, clock, id, patch, << >>)
        IN  out.ok =>
              \E new \in out.transactions :
                 /\ new.id = clock
                 /\ \A c \in RequiredColumns :
                       new[c] = OrElse(patch[c], existing[c])
                 /\ \A c \in OptionalColumns :
                       new[c] = IF patch[c] # << >> THEN patch[c] ELSE existing[c]
                 /\ \A c \in UnstoredParameters :
                       patch[c] # << >> => FullInput(existing, patch)[c] = patch[c]

\* I3 for one series key.
Coherent(T, P, k) ==
    IF Series(T, k[1], k[2]) = {}
    THEN P[k] = << >> \/ P[k] = <<State(0, 0)>>
    ELSE P[k] = <<State(Latest(Series(T, k[1], k[2])).sharesAfter,
                        Latest(Series(T, k[1], k[2])).acbAfter)>>

\* C7: after every completed create, update or delete the Position of each
\* (security, account) is (sharesAfter, acbAfter) of the last transaction of
\* its series in (date, createdAt) order, or (0, 0) when the series is empty.
C7_PositionCoherence ==
    Completed => \A k \in SeriesKeys : Coherent(transactions, positions, k)

\* C8: after every completed call, the algebra applied to each stored row's
\* before-values and stored inputs yields its stored sharesAfter, acbAfter
\* and capitalGain.
C8_AuditReproducible == Completed => \A t \in transactions : Reproduces(t)

EarliestDate(S) == (CHOOSE t \in S : \A u \in S : t.date <= u.date).date

\* replay(security, account, earliest date of the series)
ReplayAll(T, P, k) ==
    recalculateTransactions(T, P, k[1], k[2], EarliestDate(Series(T, k[1], k[2])))

\* C9: on every reachable ledger, replaying a series from its earliest date
\* twice in a row leaves after the second run the state the first run left.
C9_ReplayIdempotent ==
    \A k \in SeriesKeys :
        Series(transactions, k[1], k[2]) # {} =>
            LET once == ReplayAll(transactions, positions, k)
                twice == ReplayAll(once.transactions, once.positions, k)
            IN  /\ twice.transactions = once.transactions
                /\ twice.positions = once.positions

\* The create input that re-enters a stored row.
InputOf(t) ==
    [Blank EXCEPT !.date = t.date, !.settlementDate = <<t.settlementDate>>,
                  !.type = t.type, !.securityId = t.securityId,
                  !.accountId = t.accountId, !.quantity = t.quantity,
                  !.price = t.price, !.fees = <<t.fees>>, !.ratio = t.ratio,
                  !.newSecurityId = t.newSecurityId, !.notes = t.notes,
                  !.fxRate = <<t.fxRate>>]

\* The snapshots of a ledger, the row re-entered as `newId` taken as `oldId`.
Snapshots(T, newId, oldId) ==
    {[id |-> IF t.id = newId THEN oldId ELSE t.id,
      sharesBefore |-> t.sharesBefore, sharesAfter |-> t.sharesAfter,
      acbBefore |-> t.acbBefore, acbAfter |-> t.acbAfter,
      capitalGain |-> t.capitalGain] : t \in T}

\* C10: deleting a transaction and creating it again with identical inputs
\* restores every snapshot of the series and the Position.  Stated for buy
\* and sell rows, whose inputs are all stored columns, that are alone on
\* their trade date, and for round trips whose two calls both complete.
C10_DeleteCreateRoundTrip ==
    \A t \in {r \in transactions : r.type \in {"buy", "sell"}
                                     /\ SameDayOthers(transactions, r) = {}} :
        LET deleted == deleteTransaction(transactions, positions, t.id)
            created == createTransaction(deleted.transactions, deleted.positions,
                                         clock, InputOf(t), << >>)
        IN  (deleted.ok /\ created.ok) =>
                /\ Snapshots(created.transactions, clock, t.id)
                     = Snapshots(transactions, clock, t.id)
                /\ created.positions = positions

\* The snapshots stored for series key k.
SeriesSnapshots(T, k) ==
    {[id |-> t.id,
      sharesBefore |-> t.sharesBefore, sharesAfter |-> t.sharesAfter,
      acbBefore |-> t.acbBefore, acbAfter |-> t.acbAfter,
      capitalGain |-> t.capitalGain] : t \in {r \in T : <<r.securityId, r.accountId>> = k}}

\* The step leaves every series outside K as it was.
Untouched(K) ==
    \A k \in SeriesKeys \ K :
        /\ SeriesSnapshots(transactions', k) = SeriesSnapshots(transactions, k)
        /\ positions'[k] = positions[k]

KeyOf(t) == <<t.securityId, t.accountId>>

\* A replay of series k from its earliest date leaves every other series as
\* it was.
ReplayUntouched ==
    \A k \in SeriesKeys :
        Series(transactions, k[1], k[2]) # {} =>
            LET out == ReplayAll(transactions, positions, k)
            IN  \A j \in SeriesKeys \ {k} :
                    /\ SeriesSnapshots(out.transactions, j)
                         = SeriesSnapshots(transactions, j)
                    /\ out.positions[j] = positions[j]

\* C11: createTransaction, deleteTransaction, updateTransaction and replay on
\* one series never change a snapshot, a capitalGain or the Position of any
\* other series, another account holding the same security included.  An
\* update that moves a transaction to another account acts on both series.
C11_SeriesIndependence ==
    /\ []ReplayUntouched
    /\ [][/\ \A input \in SeriesInputs :
               Create(input) => Untouched({<<input.securityId, input.accountId>>})
          /\ \A id \in Ids :
               Delete(id) => Untouched({KeyOf(Row(transactions, id))})
          /\ \A id \in Ids, patch \in SeriesPatches :
               Update(id, patch) =>
                   Untouched({KeyOf(Row(transactions, id)),
                              KeyOf(FullInput(Row(transactions, id), patch))})]_vars

\* Both accounts hold transactions and a delete has just replayed one series.
C11_Witness ==
    /\ last.op = "delete" /\ last.ok
    /\ \A a \in Accounts : Cardinality(Series(transactions, "TEST", a)) >= 1
    /\ \E a \in Accounts : Cardinality(Series(transactions, "TEST", a)) >= 2

\* The store two createTransaction calls leave when the second starts after
\* the first has ended.
SerialSecond(first, second) ==
    createTransaction(first.transactions, first.positions,
                      IF first.transactions = {} THEN 1 ELSE 2, second, << >>)

Serial(first, second) ==
    SerialSecond(createTransaction({}, [k \in SeriesKeys |-> << >>], 1, first, << >>),
                 second)

BothEnded == \A r \in Requests : inflight[r].pc \in {"done", "failed"}

DistinctDates ==
    \A r \in Requests, q \in Requests :
        r # q => inflight[r].input[1].date # inflight[q].input[1].date

\* C12: when two concurrent requests on one series have both ended, the
\* stored transactions and the Position are those one of the two serial
\* orders of the requests produces, and every series is chained.  Stated for
\* two requests on different trade dates.
C12_PerSeriesSerialization ==
    (BothEnded /\ DistinctDates) =>
        /\ \E first \in Requests, second \in Requests :
              /\ first # second
              /\ transactions
                   = Serial(inflight[first].input[1], inflight[second].input[1]).transactions
              /\ positions
                   = Serial(inflight[first].input[1], inflight[second].input[1]).positions
        /\ ChainContinuity(transactions)

\* C13: after every completed call whose inputs have non-negative quantity,
\* price, fees and fxRate (every input of SpecCorporate), no stored snapshot
\* and no Position has negative shares or negative total ACB.
C13_NonNegativity ==
    Completed =>
        /\ \A t \in transactions :
              /\ t.sharesBefore >= 0 /\ t.sharesAfter >= 0
              /\ t.acbBefore >= 0 /\ t.acbAfter >= 0
        /\ \A k \in SeriesKeys :
              positions[k] # << >> =>
                  positions[k][1].shares >= 0 /\ positions[k][1].acb >= 0

InWindow(t, s) ==
    /\ t.securityId = s.securityId
    /\ t.type \in {"buy", "drip"}
    /\ t.id # s.id
    /\ t.date >= s.date - WINDOW_DAYS /\ t.date <= s.date + WINDOW_DAYS

\* The latest transaction of the security dated <= D+30 holds shares.
HeldAfter(T, s) ==
    LET upTo == {t \in T : t.securityId = s.securityId
                            /\ t.date <= s.date + WINDOW_DAYS}
    IN  upTo # {} /\ Latest(upTo).sharesAfter > 0

IsLoss(s) == s.type = "sell" /\ s.capitalGain # << >> /\ s.capitalGain[1] < 0

\* The denial test on the stored ledger.
Denied(T, s) ==
    /\ IsLoss(s)
    /\ ~isRegistered(s.accountId)
    /\ \E t \in T : InWindow(t, s)
    /\ HeldAfter(T, s)

\* C15: when a completed createTransaction enters a buy that is the only
\* acquisition in the window of a denied loss of its series, after the sell
\* and of at least the shares sold, the buy's acbAfter is its cost on top of
\* acbBefore plus the denied amount.
C15_DeniedLossInRepurchase ==
    (last.op = "create" /\ last.ok) =>
        \A b \in {t \in transactions : t.id = last.id /\ t.type = "buy"} :
            \A s \in transactions :
                (/\ Denied(transactions, s)
                 /\ KeyOf(s) = KeyOf(b)
                 /\ {t \in transactions : InWindow(t, s)} = {b}
                 /\ b.date > s.date
                 /\ b.quantity >= s.quantity)
                => b.acbAfter = AlgebraOnStored(b).newAcb + Abs(s.capitalGain[1])

\* C16: after every completed call, every sell that meets the denial test on
\* the stored ledger (non-registered account, negative capitalGain, another
\* buy or drip of the security dated in [D-30, D+30], shares held at D+30)
\* carries the superficial_loss flag, in whatever order the rows were entered.
C16_FlagCompleteness ==
    Completed =>
        \A s \in transactions :
            Denied(transactions, s) => "superficial_loss" \in s.flags

\* C17: when the detector finds the loss L of a stored sell of N shares
\* superficial and one acquisition, a repurchase of k <= N shares after the
\* sell, lies in its window, the denied amount it reports is L * k / N.
C17_ProportionalDenial ==
    Completed =>
        \A s \in {t \in transactions : IsLoss(t)} :
            \A b \in transactions :
                (/\ checkForSuperficialLoss(transactions, s, s.capitalGain[1])
                 /\ {t \in transactions : InWindow(t, s)} = {b}
                 /\ b.date > s.date
                 /\ b.quantity <= s.quantity)
                => reportedLossAmount(transactions, s, s.capitalGain[1]) * s.quantity
                     = Abs(s.capitalGain[1]) * b.quantity

\* C18: for every stored sell, the acquiring events the detector relates to
\* it are exactly the buys and drips of its security, in any account, other
\* than the sell, dated in the inclusive window [D-30, D+30] (D-30, D and
\* D+30 included), and no transaction of another type.
C18_DetectionWindow ==
    Completed =>
        \A s \in {t \in transactions : t.type = "sell"} :
            filteredAcquisitions(transactions, s)
              = {t \in transactions : InWindow(t, s)}

\* C19: after a completed operation, a sell carries the superficial_loss flag
\* only if, on the ledger that includes the sell itself, the latest
\* transaction of its security dated <= D+30 has sharesAfter > 0; a sell that
\* liquidates the whole holding with nothing later up to D+30 is not flagged.
C19_StillHeldTest ==
    Completed =>
        \A s \in {t \in transactions : t.type = "sell"} :
            "superficial_loss" \in s.flags => HeldAfter(transactions, s)

\* C20: in every reachable state no sell recorded in a registered account
\* (an account whose type is not non-registered) carries the superficial_loss
\* flag, whatever acquisitions lie in its window.
C20_RegisteredExempt ==
    \A s \in {t \in transactions : t.type = "sell"} :
        isRegistered(s.accountId) => "superficial_loss" \notin s.flags

\* C21: detecting a superficial loss only sets the flag on the sell.  A
\* flagged sell holds the shares, ACB and capital gain the algebra gives for
\* its stored before-values, the loss undiminished; and a createTransaction
\* that stores a flagged sell at the end of its series leaves every other
\* transaction as it was, every other Position as it was, and the series'
\* Position at the sell's sharesAfter and acbAfter.
FlaggedSells(T) == {t \in T : t.type = "sell" /\ "superficial_loss" \in t.flags}

FlagOnly ==
    \A s \in FlaggedSells(transactions) :
        /\ AlgebraOnStored(s).ok
        /\ s.sharesAfter = AlgebraOnStored(s).newShares
        /\ s.acbAfter = AlgebraOnStored(s).newAcb
        /\ s.capitalGain = AlgebraOnStored(s).capitalGain
        /\ s.capitalGain[1] < 0

FlaggedCreateFrame ==
    \A s \in FlaggedSells(transactions') :
        (/\ last'.op = "create" /\ last'.ok /\ s.id = last'.id
         /\ s \notin transactions
         /\ \A t \in Series(transactions', s.securityId, s.accountId) :
                t.date <= s.date)
        => /\ transactions' = transactions \cup {s}
           /\ positions' = [positions EXCEPT ![KeyOf(s)] =
                                <<State(s.sharesAfter, s.acbAfter)>>]

HeldBefore(T, input) ==
    LET upTo == {t \in Series(T, input.securityId, input.accountId) :
                    t.date <= input.date}
    IN  IF upTo = {} THEN 0 ELSE Latest(upTo).sharesAfter

RejectedUnchanged ==
    /\ ~last'.ok
    /\ transactions' = transactions
    /\ \A k \in SeriesKeys : positions[k] # << >> => positions'[k] = positions[k]

C22_InsufficientShares ==
    [][\A input \in CorporateInputs :
          (/\ input.type \in {"sell", "transfer_out"}
           /\ input.quantity > HeldBefore(transactions, input)
           /\ Create(input))
          => RejectedUnchanged]_vars

\* C23: no split, consolidation or merger with a ratio <= 0 is ever stored:
\* createTransaction rejects it, and no stored snapshot was computed from
\* such a ratio.
C23_InvalidRatio ==
    \A t \in transactions :
        (t.type \in {"split", "consolidation", "merger"} /\ t.ratio # << >>)
        => greaterThan(t.ratio[1], Zero)

\* C24: a createTransaction that needs the FX service's rate (security not
\* in CAD, no fxRate from the caller) and gets none fails and has written
\* nothing: the transactions and the Positions, the absent ones included,
\* are what they were.
C24_FxUnavailableNoTrace ==
    [][\A input \in FxInputs, oracle \in Oracles :
          (/\ NeedsOracle(input)
           /\ getRate(oracle, OrElse(input.settlementDate, input.date)) = << >>
           /\ CreateFx(input, oracle))
          => /\ ~last'.ok
             /\ transactions' = transactions
             /\ positions' = positions]_vars

\* C26: the fxRate stored on a created transaction is the caller's rate when
\* one was supplied, else 1 when the security's currency is CAD, else the FX
\* service's rate for the settlement date; and in the first two cases the
\* FX service is not called: the call's outcome is the same whatever the
\* service would answer, a failure included.  (When the service has no rate
\* for the settlement date the call fails and no rate is stored.)
ResolvedRate(input, oracle) ==
    IF input.fxRate # << >> THEN input.fxRate[1]
    ELSE IF Currency[input.securityId] = "CAD" THEN 100
    ELSE IF OrElse(input.settlementDate, input.date) \in DOMAIN oracle
         THEN oracle[OrElse(input.settlementDate, input.date)]
         ELSE 0

OracleNotCalled ==
    \A input \in FxInputs, oracle \in Oracles :
        ~NeedsOracle(input) =>
            createTransaction(transactions, positions, clock, input, oracle)
              = createTransaction(transactions, positions, clock, input, << >>)

ReadIsCurrent(r) ==
    inflight[r].positionState
      = <<getPositionStateAtDate(transactions, inflight[r].input[1].securityId,
                                 inflight[r].input[1].accountId,
                                 inflight[r].input[1].date)>>

C25_FxBeforeCriticalSection ==
    [][\A r \in Requests, oracle \in {<< >>, <<135, 140>>} :
          (FetchRate(r, oracle) /\ inflight'[r].pc = "positionReady")
          => ReadIsCurrent(r)]_vars

\* C27: createTransaction with a securityId or an accountId the store does
\* not hold, and updateTransaction or deleteTransaction with a transaction id
\* it does not hold, fail and leave every stored transaction and every
\* Position as it was.
FailedUnchanged ==
    /\ ~last'.ok
    /\ transactions' = transactions
    /\ positions' = positions

C27_NotFoundChangesNothing ==
    [][/\ \A input \in NotFoundInputs :
            (/\ input.securityId \notin Securities \/ input.accountId \notin Accounts
             /\ Create(input))
            => FailedUnchanged
       /\ \A patch \in NotFoundPatches :
            (UnknownId \notin Ids /\ Update(UnknownId, patch)) => FailedUnchanged
       /\ (UnknownId \notin Ids /\ Delete(UnknownId)) => FailedUnchanged]_vars

C27_Witness ==
    /\ last.op = "delete" /\ ~last.ok /\ last.target = UnknownId
    /\ UnknownId \notin Ids
    /\ Cardinality(transactions) >= 2
    /\ positions[<<"TEST", "NONREG">>] # << >>

\* Amounts of the algebra claims, in cents as exact rationals: p.q.r, the
\* ACB of the shares sold (A_b/S_b).q, and rocPerShare.S_b.r; and the cents
\* an amount is stored as.
Calculated(type) ==
    /\ calc.input # << >> /\ calc.result # << >>
    /\ calc.input[1].transactionType = type

ValueCad(input) ==
    times(times(Rat(input.pricePerShare, 1), Rat(input.quantity, SHARE_SCALE)),
          Rat(input.fxRate, 100))

AcbSold(input) ==
    times(Rat(input.currentAcb, 1), Rat(input.quantity, input.currentShares))

TotalRoc(input) ==
    times(times(Rat(input.rocPerShare[1], 1),
                Rat(input.currentShares, SHARE_SCALE)),
          Rat(input.fxRate, 100))

Cents(a) == RoundHalfUp(a, 1)

C30_RocClamp ==
    Calculated("roc")
    => LET input == calc.input[1]
           result == calc.result[1]
           total == TotalRoc(input)
       IN  /\ result.ok
           /\ result.newShares = input.currentShares
           /\ IF greaterThan(total, Rat(input.currentAcb, 1))
              THEN /\ result.newAcb = 0
                   /\ result.capitalGain =
                        <<Cents(minus(total, Rat(input.currentAcb, 1)))>>
              ELSE /\ result.newAcb = Cents(minus(Rat(input.currentAcb, 1), total))
                   /\ result.capitalGain = << >>

C30_Witness ==
    /\ Calculated("roc")
    /\ calc.input[1].currentShares = 100000000 /\ calc.input[1].currentAcb = 80000
    /\ calc.input[1].rocPerShare = <<1000>> /\ calc.input[1].fxRate = 100
    /\ calc.result[1].newAcb = 0
    /\ calc.result[1].capitalGain = <<20000>>
    /\ calc.result[1].newShares = 100000000

\* C31: a completed createTransaction of a spinoff on a holding with ACB
\* A_b > 0 stores the spinoff with its shares unchanged and acbAfter =
\* A_b.(1 - newSecurityAcbPercent), and stores with it a transfer_in in the (newSecurityId, account) series that
\* adds the allocated portion A_b.newSecurityAcbPercent to that series' ACB,
\* so that the ACB of the two series together is what it was.
C31_SpinoffConservation ==
    [][\A input \in SpinoffToInputs :
          (/\ input.type = "spinoff" /\ Create(input) /\ last'.ok
           /\ Row(transactions', last'.id).acbBefore > 0)
          => LET spinoff == Row(transactions', last'.id)
             IN  /\ spinoff.sharesAfter = spinoff.sharesBefore
                 /\ spinoff.acbAfter =
                      roundToCurrency(
                          times(toDecimalCurrency(spinoff.acbBefore),
                                Rat(100 - input.newSecurityAcbPercent[1], 100)))
                 /\ \E t \in transactions' \ transactions :
                      /\ t.type = "transfer_in"
                      /\ t.securityId = input.newSecurityId[1]
                      /\ t.accountId = input.accountId
                      /\ t.acbAfter - t.acbBefore
                           = spinoff.acbBefore - spinoff.acbAfter]_vars

\* C32: calculate on a dividend returns the shares and the ACB it was given;
\* on a split or a consolidation with ratio > 0 it returns shares S_b.ratio
\* (as stored, six decimals) and the ACB it was given; none of the three
\* returns a capital gain.
C32_AcbNeutralEvents ==
    /\ Calculated("dividend")
       => /\ calc.result[1].ok
          /\ calc.result[1].newShares = calc.input[1].currentShares
          /\ calc.result[1].newAcb = calc.input[1].currentAcb
          /\ calc.result[1].capitalGain = << >>
    /\ \A type \in {"split", "consolidation"} :
         (/\ Calculated(type) /\ calc.input[1].ratio # << >>
          /\ greaterThan(calc.input[1].ratio[1], Zero))
         => /\ calc.result[1].ok
            /\ calc.result[1].newShares =
                 RoundHalfUp(times(Rat(calc.input[1].currentShares, 1),
                                   calc.input[1].ratio[1]), 1)
            /\ calc.result[1].newAcb = calc.input[1].currentAcb
            /\ calc.result[1].capitalGain = << >>

C32_Witness ==
    /\ Calculated("consolidation")
    /\ calc.input[1].ratio = <<Rat(1, 2)>>
    /\ calc.input[1].currentShares = 3000000 /\ calc.input[1].currentAcb = 1000
    /\ calc.result[1].newShares = 1500000
    /\ calc.result[1].newAcb = 1000

CashTotal(input) ==
    times(times(Rat(OrElse(input.cashPerShare, 0), 1),
                Rat(input.currentShares, SHARE_SCALE)),
          Rat(input.fxRate, 100))

ShareValue(input) ==
    times(times(times(Rat(input.currentShares, SHARE_SCALE), input.ratio[1]),
                Rat(input.pricePerShare, 1)),
          Rat(input.fxRate, 100))

AcbForCash(input) ==
    times(Rat(input.currentAcb, 1),
          safeDivide(CashTotal(input), plus(CashTotal(input), ShareValue(input))))

\* C33: calculate on a merger with a ratio returns shares S_b.ratio; when
\* cashPerShare > 0 and the cash and the new shares are worth something, it
\* returns ACB A_b - A_b.cashProp and capital gain cash_total - A_b.cashProp,
\* where cash_total = cashPerShare.S_b.r and cashProp = cash_total /
\* (cash_total + newShares.p.r); when cashPerShare is 0 or absent it returns
\* the ACB it was given and no capital gain.
C33_MergerAlgebra ==
    (Calculated("merger") /\ calc.input[1].ratio # << >>)
    => LET input == calc.input[1]
           result == calc.result[1]
       IN  /\ result.ok
           /\ result.newShares =
                RoundHalfUp(times(Rat(input.currentShares, 1), input.ratio[1]), 1)
           /\ OrElse(input.cashPerShare, 0) = 0
              => /\ result.newAcb = input.currentAcb
                 /\ result.capitalGain = << >>
           /\ (/\ OrElse(input.cashPerShare, 0) > 0
               /\ ~isZero(plus(CashTotal(input), ShareValue(input))))
              => /\ result.newAcb =
                      Cents(minus(Rat(input.currentAcb, 1), AcbForCash(input)))
                 /\ result.capitalGain =
                      <<Cents(minus(CashTotal(input), AcbForCash(input)))>>

C33_Witness ==
    /\ Calculated("merger")
    /\ calc.input[1].ratio = <<Rat(2, 1)>> /\ calc.input[1].cashPerShare = <<500>>
    /\ calc.input[1].currentShares = 100000000 /\ calc.input[1].currentAcb = 80000
    /\ calc.input[1].pricePerShare = 2000 /\ calc.input[1].fxRate = 100
    /\ calc.result[1].newShares = 200000000
    /\ calc.result[1].newAcb = 71111
    /\ calc.result[1].capitalGain = <<41111>>

ClaimedColumns ==
    <<"Date", "Settlement Date", "Type", "Security", "Account", "Quantity",
      "Price", "Currency", "FX Rate", "ACB Before", "ACB After",
      "Shares Before", "Shares After", "Capital Gain/Loss", "Flags", "Notes">>

\* C35: a CSV export that has data lines has the 16 columns Date, Settlement
\* Date, Type, Security, Account, Quantity, Price, Currency, FX Rate, ACB
\* Before, ACB After, Shares Before, Shares After, Capital Gain/Loss, Flags,
\* Notes as its header line, and 16 cells on every data line.
C35_CsvExportShape ==
    (last.op = "export" /\ Len(last.csv) > 1)
    => /\ last.csv[1] = ClaimedColumns
       /\ \A i \in 2..Len(last.csv) : Len(last.csv[i]) = Len(ClaimedColumns)

\* What a replay of the series k from fromDate leaves in the ledger T and the
\* positions P, when T0 is the ledger it started on.
ReplayPostCondition(T0, T, P, k, fromDate) ==
    LET before == {t \in Series(T0, k[1], k[2]) : t.date < fromDate}
        seed == IF before = {} THEN State(0, 0)
                ELSE State(Latest(before).sharesAfter, Latest(before).acbAfter)
        list == SortAsc({t \in Series(T, k[1], k[2]) : t.date >= fromDate})
    IN  /\ \A i \in 1..Len(list) :
             State(list[i].sharesBefore, list[i].acbBefore) =
                 IF i = 1 THEN seed
                 ELSE State(list[i - 1].sharesAfter, list[i - 1].acbAfter)
        /\ P[k] = <<IF Len(list) = 0 THEN seed
                    ELSE State(list[Len(list)].sharesAfter, list[Len(list)].acbAfter)>>

LaterExists(T, input) ==
    \E t \in Series(T, input.securityId, input.accountId) : t.date > input.date

\* C36: a replay that completes (the one of a deleteTransaction, from the
\* deleted row's date, and the one of a createTransaction that found later
\* transactions, from the new row's date) leaves the transactions dated
\* fromDate or later chained in (date, createdAt) order, the first one
\* starting from the after-values of the latest transaction dated strictly
\* before fromDate, or from (0, 0) if there is none, and leaves the Position
\* at the after-values of the last one.
C36_ReplayPostCondition ==
    [][/\ \A id \in Ids :
            (last'.op = "delete" /\ last'.ok /\ Delete(id))
            => ReplayPostCondition(transactions, transactions', positions',
                                   <<Row(transactions, id).securityId,
                                     Row(transactions, id).accountId>>,
                                   Row(transactions, id).date)
       /\ \A input \in CreateInputs :
            (/\ last'.op = "create" /\ last'.ok
             /\ LaterExists(transactions, input) /\ Create(input))
            => ReplayPostCondition(transactions, transactions', positions',
                                   <<input.securityId, input.accountId>>,
                                   input.date)]_vars

C36_Witness ==
    /\ last.op = "create" /\ last.ok
    /\ Row(transactions, last.id).date = 2
    /\ Row(transactions, last.id).sharesBefore > 0
    /\ \E t \in transactions : t.date = 1
    /\ \E t \in transactions :
         /\ t.date = 40
         /\ t.sharesBefore = Row(transactions, last.id).sharesAfter
         /\ positions[<<"TEST", "NONREG">>] = <<State(t.sharesAfter, t.acbAfter)>>

\* C37: after a completed updateTransaction(id, patch) the ledger holds
\* exactly one transaction with that id, it carries the patched inputs, and
\* the ledger has as many transactions as before.
C37_UpdatePreservesIdentity ==
    [][\A id \in Ids, patch \in Patches :
          (last'.op = "update" /\ last'.ok /\ Update(id, patch))
          => /\ Cardinality({t \in transactions' : t.id = id}) = 1
             /\ \A t \in {u \in transactions' : u.id = id} :
                  /\ patch.date # << >> => t.date = patch.date[1]
                  /\ patch.quantity # << >> => t.quantity = patch.quantity[1]
                  /\ patch.price # << >> => t.price = patch.price[1]
             /\ Cardinality(transactions') = Cardinality(transactions)]_vars

\* A stored disposal of exactly the shares held before it.
FullLiquidation(t) ==
    /\ t.type \in {"sell", "transfer_out"}
    /\ t.sharesBefore > 0
    /\ t.quantity = t.sharesBefore

\* The transaction just before t in its series, in (date, createdAt) order.
Predecessor(T, t) ==
    LET earlier == {u \in Series(T, t.securityId, t.accountId) : Precedes(u, t)}
    IN  IF earlier = {} THEN << >> ELSE <<Latest(earlier)>>

\* C38: after every completed call, a stored sell or transfer_out of exactly
\* the shares held has sharesAfter 0 and acbAfter 0, and a buy that follows
\* it in the series starts from (0, 0) and has acbAfter = p.q.r + f.
C38_FullLiquidation ==
    Completed
    => /\ \A t \in transactions :
            FullLiquidation(t) => t.sharesAfter = 0 /\ t.acbAfter = 0
       /\ \A t \in transactions :
            (/\ t.type = "buy" /\ Predecessor(transactions, t) # << >>
             /\ FullLiquidation(Predecessor(transactions, t)[1]))
            => /\ t.sharesBefore = 0 /\ t.acbBefore = 0
               /\ t.acbAfter =
                    Cents(plus(times(times(Rat(t.price, 1),
                                           Rat(t.quantity, SHARE_SCALE)),
                                     Rat(t.fxRate, 100)),
                               Rat(t.fees, 1)))

\* C39: after every completed call, a transaction carries the
\* superficial_loss flag only if it is a sell with a negative stored
\* capitalGain that meets the denial test on the stored ledger (non-registered
\* account, another buy or drip of the security dated in [D-30, D+30], shares
\* held at D+30); a flag whose grounds a later call removed is gone.
C39_FlagSoundness ==
    Completed =>
        \A t \in transactions :
            "superficial_loss" \in t.flags => Denied(transactions, t)

\* The step leaves every row of series k dated before `date` as it was.
PrefixUntouched(k, date) ==
    \A t \in Series(transactions, k[1], k[2]) : t.date < date => t \in transactions'

\* C40: a createTransaction or a deleteTransaction of a transaction with
\* trade date d, completed or not, leaves every stored field of every
\* transaction of the same series dated strictly before d as it was.
C40_PrefixUntouched ==
    [][/\ \A input \in CreateInputs :
            (last'.op = "create" /\ Create(input))
            => PrefixUntouched(<<input.securityId, input.accountId>>, input.date)
       /\ \A id \in Ids :
            (last'.op = "delete" /\ Delete(id))
            => PrefixUntouched(KeyOf(Row(transactions, id)),
                               Row(transactions, id).date)]_vars

\* A create on day 2 between a buy of day 1 and a sell of day 40, which the
\* replay has rewritten.
C40_Witness ==
    /\ last.op = "create" /\ last.ok
    /\ Row(transactions, last.id).date = 2
    /\ Row(transactions, last.id).type = "buy"
    /\ \E t \in transactions : t.date = 1 /\ t.type = "buy" /\ t.sharesBefore = 0
    /\ \E t \in transactions :
         /\ t.date = 40 /\ t.type = "sell"
         /\ t.createdAt < Row(transactions, last.id).createdAt
         /\ t.sharesBefore = Row(transactions, last.id).sharesAfter

====
